---- MODULE Spec2Model ----
(***************************************************************************)
(* The snippet-optimisation feedback loop of snippet_optimizer_agent.py    *)
(* (main), with the two stages it drives: SiteSelectorAgent.select_sites   *)
(* (the Judge wrapper) and SnippetOptimizerAgent.optimize_snippet (the     *)
(* Proposer wrapper), and the registry of custom entries of                *)
(* enhanced_search_server.py with the enhancement of search results.       *)
(*                                                                         *)
(* Python values: a dict is a function from the keys it holds to their     *)
(* values, so d.get(k, default) is Get(d, k, default) and "k in d" is      *)
(* Has(d, k).  A list is a sequence; Python positions are 0-based and are  *)
(* kept 0-based (mcp_entry_index, original_index): At(l, i) is l[i].       *)
(* A piece of text whose content matters only through concatenation and    *)
(* containment (an error message) is a sequence of tokens.                 *)
(***************************************************************************)
EXTENDS Integers, Sequences, FiniteSets, TLC

VARIABLES
    pc,               \* where main is: start, select, test, optimize, handoff, spawn, wait, done
    status,           \* Init, Iterating, Converged, Exhausted, Aborted, Raised
    round_num,        \* the for-loop variable of main
    search_results,   \* the candidate list
    mcp_entry_index,  \* the 0-based position of the target
    selector_output,  \* what select_sites returned this round
    result,           \* what optimize_snippet returned last
    judge_calls,      \* chat_completion calls made by select_sites
    proposer_calls,   \* chat_completion calls made by optimize_snippet
    abort_reason,     \* the text main prints when the optimizer failed
    exception,        \* the exception that left main, if any
    slot,             \* the content of target_snippet.txt
    k,                \* the position in selected_sites of the for loop of the handoff
    consumer,         \* the website_optimizer_agent.py subprocess: none, running, exited, failed
    handoff_log,      \* the writes of the slot and the starts of the consumer, in order
    judge_resp,       \* what the Judge's chat_completion did this round
    proposer_resp,    \* what the Proposer's chat_completion did this round
    rejected_rounds,  \* the rounds whose convergence test found no match
    proposals_ok,     \* the calls of optimize_snippet that returned success
    max_sites_arg,    \* the max_sites argument select_sites is called with
    company_info_file,\* the content of company_info.md, NoFile when there is no such file
    judge_prompt,     \* what the prompt of this round's select_sites was made of
    proposer_prompt,  \* what the prompt of the running optimize_snippet was made of
    company_infos,    \* the company_info texts the Proposer was sent in this run
    CUSTOM_ENTRIES,   \* enhanced_search_server: the registry, keywords in insertion order
    query,            \* enhanced_search_server: the query of the last search request
    results,          \* enhanced_search_server: what search_web returned for it
    enhanced_results, \* enhanced_search_server: what enhance_search_results returned
    add_reply,        \* enhanced_search_server: what the last POST /custom-entries answered
    add_data,         \* enhanced_search_server: the JSON body of the last POST /custom-entries
    request_count,    \* mcp_logger: MCPLogger.request_count
    response_count,   \* mcp_logger: MCPLogger.response_count
    error_count,      \* mcp_logger: MCPLogger.error_count
    mcp_requests,     \* mcp_logger: the entries appended to mcp_requests.jsonl
    mcp_responses,    \* mcp_logger: the entries appended to mcp_responses.jsonl
    mcp_errors,       \* mcp_logger: the entries appended to mcp_errors.jsonl
    exchanges,        \* the requests the logging middleware has taken, by request_id
    stats             \* what the last get_statistics returned

vars == <<pc, status, round_num, search_results, mcp_entry_index, selector_output,
          result, judge_calls, proposer_calls, abort_reason, exception, slot, k,
          consumer, handoff_log, judge_resp, proposer_resp, rejected_rounds,
          proposals_ok, max_sites_arg, company_info_file, judge_prompt,
          proposer_prompt, company_infos, CUSTOM_ENTRIES, query, results,
          enhanced_results, add_reply, add_data, request_count, response_count, error_count,
          mcp_requests, mcp_responses, mcp_errors, exchanges, stats>>

\* the variables of main and of the two stages it drives
mainVars == <<pc, status, round_num, search_results, mcp_entry_index, selector_output,
              result, judge_calls, proposer_calls, abort_reason, exception, slot, k,
              consumer, handoff_log, judge_resp, proposer_resp, rejected_rounds,
              proposals_ok, max_sites_arg, company_info_file, judge_prompt,
              proposer_prompt, company_infos>>

\* the variables of the search server
serverVars == <<CUSTOM_ENTRIES, query, results, enhanced_results, add_reply, add_data>>

\* the company info file and what the two stages put into their prompts
promptVars == <<company_info_file, judge_prompt, proposer_prompt, company_infos>>

\* the variables of the logger and of the logging middleware
loggerVars == <<request_count, response_count, error_count, mcp_requests, mcp_responses,
                mcp_errors, exchanges, stats>>

-----------------------------------------------------------------------------
(* Bounds of the model *)

MaxCandidates == 2
MaxVerdict == 2

(* Program constants *)

max_rounds == 5
max_sites == 3
FallbackConfidence == 7
DefaultConfidence == 5
DefaultIndex == -1

-----------------------------------------------------------------------------
(* Python values *)

PyNone == "<None>"

\* None in a field that holds a record otherwise (a text, a JSON value)
NoneValue == [t |-> "none"]

\* None in a field that holds a message otherwise
NoError == <<PyNone>>

Has(d, key) == key \in DOMAIN d

Get(d, key, default) == IF key \in DOMAIN d THEN d[key] ELSE default

At(l, i) == l[i + 1]

InRange(l, i) == i >= 0 /\ i < Len(l)

\* bool(v) of a string or None
Truthy(v) == v # PyNone /\ v # ""

\* a or b
Or(a, b) == IF Truthy(a) THEN a ELSE b

\* sub in text, both token sequences
Contains(text, sub) ==
    \E i \in 1..(Len(text) - Len(sub) + 1) : SubSeq(text, i, i + Len(sub) - 1) = sub

\* JSON values as json.loads returns them
JList(items) == [t |-> "list", items |-> items]
JDict(d) == [t |-> "dict", v |-> d]
JScalar(x) == [t |-> "scalar", value |-> x]
Garbage == [t |-> "garbage", message |-> "Expecting value"]

IsDict(j) == j.t = "dict"
IsList(j) == j.t = "list"

\* The text an oracle returns: a payload, bare, wrapped in a code fence, or
\* wrapped in a code fence that follows some prose.
Text(fence, body) == [fence |-> fence, body |-> body]

\* llm_response.strip(), the code-block regex and strip('`\n '), then json.loads:
\* the fence is removed when the whole text is the fenced block; prose before the
\* fence stays and json.loads fails on it.
JsonLoads(text) == IF text.fence = "prose" THEN Garbage ELSE text.body

-----------------------------------------------------------------------------
(* The candidate lists search_web can return *)

MarkerTitle == "MCP Test Entry"

MarkerEntry ==
    [title |-> MarkerTitle, link |-> "https://mcp.test", snippet |-> "old snippet"]

OrganicEntry ==
    [title |-> "Organic", link |-> "https://organic", snippet |-> "organic snippet"]

ErrorEntry == [error |-> "Google API Error"]

Candidates == {MarkerEntry, OrganicEntry, ErrorEntry}

SeqsUpTo(S, n) == UNION {[1..m -> S] : m \in 0..n}

CandidateLists == SeqsUpTo(Candidates, MaxCandidates)

\* "MCP Test Entry" in r.get("title", "")
HasMarker(r) == Get(r, "title", "") \in {MarkerTitle}

\* main: the first position whose title holds the marker, 0 when there is none
FindTarget(sr) ==
    IF \E i \in 1..Len(sr) : HasMarker(sr[i])
    THEN (CHOOSE i \in 1..Len(sr) :
              HasMarker(sr[i]) /\ \A j \in 1..(i - 1) : ~HasMarker(sr[j])) - 1
    ELSE 0

-----------------------------------------------------------------------------
(* SiteSelectorAgent *)

\* the candidates of sr that are no error placeholders, each with the number
\* enumerate gives it when it counts from first
Numbered(sr, first) ==
    LET all == [i \in 1..Len(sr) |-> [number |-> i - 1 + first, result |-> sr[i]]]
        kept == SelectSeq(all, LAMBDA x : ~Has(x.result, "error"))
    IN  [j \in 1..Len(kept) |->
            [number |-> kept[j].number,
             title |-> Get(kept[j].result, "title", "No title"),
             link |-> Get(kept[j].result, "link", "No link"),
             snippet |-> Get(kept[j].result, "snippet", "No snippet")]]

\* _format_search_results with the candidates counted from 0
SelectorFormatFromZero(sr) == Numbered(sr, 0)

\* SiteSelectorAgent._format_search_results: enumerate(search_results, 1)
SelectorFormatSearchResults(sr) == Numbered(sr, 1)

\* select_sites, lines 66-69: what the analysis prompt is made of
AnalysisPrompt(sr, max) ==
    [formatted_results |-> SelectorFormatSearchResults(sr), max_sites |-> max]

FallbackReason == "Fallback selection due to LLM analysis failure"
FallbackExpected == "General information about the topic"

RECURSIVE FallbackFrom(_, _, _)
FallbackFrom(sr, n, i) ==
    IF i >= n THEN <<>>
    ELSE (IF ~Has(At(sr, i), "error")
          THEN << [url |-> Get(At(sr, i), "link", ""),
                   title |-> Get(At(sr, i), "title", "Unknown"),
                   confidence |-> FallbackConfidence,
                   reason |-> FallbackReason,
                   expected_content |-> FallbackExpected,
                   original_index |-> i] >>
          ELSE <<>>) \o FallbackFrom(sr, n, i + 1)

Min(a, b) == IF a < b THEN a ELSE b

\* _fallback_selection with the positions counted from 1
FallbackSelectionFromOne(sr, max) ==
    LET sites == FallbackFrom(sr, Min(Len(sr), max), 0) IN
        [n \in 1..Len(sites) |-> [sites[n] EXCEPT !.original_index = @ + 1]]

\* _fallback_selection over the whole list
FallbackSelectionUnsliced(sr, max) == FallbackFrom(sr, Len(sr), 0)

\* _fallback_selection: enumerate(search_results[:max_sites])
FallbackSelection(sr, max) == FallbackFrom(sr, Min(Len(sr), max), 0)

ValidatedSite(site) ==
    [url |-> Get(site, "url", ""),
     title |-> Get(site, "title", "Unknown"),
     confidence |-> Get(site, "confidence", DefaultConfidence),
     reason |-> Get(site, "reason", "No reason provided"),
     expected_content |-> Get(site, "expected_content", "General information"),
     original_index |-> Get(site, "original_index", DefaultIndex)]

RECURSIVE ValidatedSites(_)
ValidatedSites(items) ==
    IF items = <<>> THEN <<>>
    ELSE (IF IsDict(Head(items)) /\ Has(Head(items).v, "url")
          THEN <<ValidatedSite(Head(items).v)>>
          ELSE <<>>) \o ValidatedSites(Tail(items))

\* select_sites with no fallback when chat_completion raises
SelectSitesNoFallback(sr, max, resp) ==
    IF resp.kind = "error"
    THEN [selected_sites |-> <<>>, raw_llm_response |-> NoneValue, success |-> FALSE,
          error |-> <<"OpenAI API error: ">> \o resp.msg]
    ELSE IF ~IsList(JsonLoads(resp.text))
    THEN [selected_sites |-> FallbackSelection(sr, max), raw_llm_response |-> NoneValue,
          success |-> FALSE, error |-> <<"Unexpected error: ">>]
    ELSE [selected_sites |-> ValidatedSites(JsonLoads(resp.text).items),
          raw_llm_response |-> resp.text, success |-> TRUE, error |-> NoError]

\* select_sites that takes any JSON value for a verdict
SelectSitesAnyJson(sr, max, resp) ==
    IF resp.kind = "error"
    THEN [selected_sites |-> FallbackSelection(sr, max), raw_llm_response |-> NoneValue,
          success |-> FALSE, error |-> <<"OpenAI API error: ">> \o resp.msg]
    ELSE IF JsonLoads(resp.text).t = "garbage"
    THEN [selected_sites |-> FallbackSelection(sr, max), raw_llm_response |-> resp.text,
          success |-> FALSE, error |-> <<"JSON parsing failed: ">>]
    ELSE [selected_sites |-> IF IsList(JsonLoads(resp.text))
                             THEN ValidatedSites(JsonLoads(resp.text).items)
                             ELSE <<>>,
          raw_llm_response |-> resp.text, success |-> TRUE, error |-> NoError]

\* select_sites that cuts the Judge's list to max_sites entries
SelectSitesTruncated(sr, max, resp) ==
    IF resp.kind = "error" \/ ~IsList(JsonLoads(resp.text))
    THEN [selected_sites |-> FallbackSelection(sr, max), raw_llm_response |-> NoneValue,
          success |-> FALSE, error |-> <<"Unexpected error: ">>]
    ELSE [selected_sites |->
              SubSeq(ValidatedSites(JsonLoads(resp.text).items), 1,
                     Min(Len(ValidatedSites(JsonLoads(resp.text).items)), max)),
          raw_llm_response |-> resp.text, success |-> TRUE, error |-> NoError]

\* select_sites, given what chat_completion did: resp.kind = "error" when it
\* raised OpenAIError(resp.msg), "text" when it returned resp.text.
SelectSites(sr, max, resp) ==
    IF resp.kind = "error"
    THEN [selected_sites |-> FallbackSelection(sr, max),
          raw_llm_response |-> NoneValue,
          success |-> FALSE,
          error |-> <<"OpenAI API error: ">> \o resp.msg]
    ELSE LET parsed == JsonLoads(resp.text) IN
         IF parsed.t = "garbage"
         THEN [selected_sites |-> FallbackSelection(sr, max),
               raw_llm_response |-> resp.text,
               success |-> FALSE,
               error |-> <<"JSON parsing failed: ", parsed.message>>]
         ELSE IF ~IsList(parsed)
         THEN [selected_sites |-> FallbackSelection(sr, max),
               raw_llm_response |-> NoneValue,
               success |-> FALSE,
               error |-> <<"Unexpected error: ", "LLM response is not a list">>]
         ELSE [selected_sites |-> ValidatedSites(parsed.items),
               raw_llm_response |-> resp.text,
               success |-> TRUE,
               error |-> NoError]

-----------------------------------------------------------------------------
(* SnippetOptimizerAgent *)

\* company_info.md
NoFile == "<no such file>"
CompanyInfo == "CloudAIQ is a GDPR-compliant AI cloud"
CompanyInfoFiles == {CompanyInfo, "CloudAIQ has moved to Mars", NoFile}

\* lines 49-55: the text of the company info file, empty when it cannot be read
ReadCompanyInfo(file) == IF file = NoFile THEN "" ELSE file

\* SnippetOptimizerAgent._format_search_results: enumerate(search_results)
OptimizerFormatSearchResults(sr) == Numbered(sr, 0)

\* SnippetOptimizerAgent._format_selected_sites
FormatSelectedSites(selected_sites) ==
    [i \in 1..Len(selected_sites) |->
        [number |-> i,
         title |-> Get(selected_sites[i], "title", "No title"),
         url |-> Get(selected_sites[i], "url", "No url"),
         confidence |-> Get(selected_sites[i], "confidence", "?"),
         reason |-> Get(selected_sites[i], "reason", "No reason")]]

\* the optimization prompt made without the verdict of the round
OptimizationPromptWithoutVerdict(sr, output, idx, file) ==
    [formatted_results |-> OptimizerFormatSearchResults(sr),
     formatted_selection |-> <<>>,
     mcp_entry |-> At(sr, idx),
     mcp_entry_index |-> idx,
     company_info |-> ReadCompanyInfo(file)]

\* optimize_snippet, lines 46-61: what the optimization prompt is made of
OptimizationPrompt(sr, output, idx, file) ==
    [formatted_results |-> OptimizerFormatSearchResults(sr),
     formatted_selection |-> FormatSelectedSites(Get(output, "selected_sites", <<>>)),
     mcp_entry |-> At(sr, idx),
     mcp_entry_index |-> idx,
     company_info |-> ReadCompanyInfo(file)]

\* optimize_snippet that answers a failure with an entry that changes nothing
OptimizeSnippetWithFallback(sr, idx, resp) ==
    IF resp.kind = "error" \/ JsonLoads(resp.text).t = "garbage"
    THEN [new_entry |-> JDict([reason_for_change |-> "unchanged"]),
          raw_llm_response |-> NoneValue, success |-> TRUE, error |-> NoError]
    ELSE [new_entry |-> JsonLoads(resp.text), raw_llm_response |-> resp.text,
          success |-> TRUE, error |-> NoError]

\* optimize_snippet that reports a failure without its message
OptimizeSnippetSilent(sr, idx, resp) ==
    IF resp.kind = "error" \/ JsonLoads(resp.text).t = "garbage"
    THEN [new_entry |-> NoneValue, raw_llm_response |-> NoneValue,
          success |-> FALSE, error |-> NoError]
    ELSE [new_entry |-> JsonLoads(resp.text), raw_llm_response |-> resp.text,
          success |-> TRUE, error |-> NoError]

\* optimize_snippet past its first line, given what chat_completion did
OptimizeSnippet(sr, idx, resp) ==
    IF resp.kind = "error"
    THEN [new_entry |-> NoneValue, raw_llm_response |-> NoneValue,
          success |-> FALSE, error |-> resp.msg]
    ELSE LET parsed == JsonLoads(resp.text) IN
         IF parsed.t = "garbage"
         THEN [new_entry |-> NoneValue, raw_llm_response |-> NoneValue,
               success |-> FALSE, error |-> <<parsed.message>>]
         ELSE [new_entry |-> parsed, raw_llm_response |-> resp.text,
               success |-> TRUE, error |-> NoError]

-----------------------------------------------------------------------------
(* What the two oracles can answer *)

\* The entries of a Judge answer
ScalarItem == JScalar("42")

NoUrlItem == JDict([title |-> "Organic", original_index |-> 1])

BareItem == JDict([url |-> "https://elsewhere"])

AtZeroItem ==
    JDict([url |-> "https://elsewhere", title |-> "Elsewhere", confidence |-> 9,
           reason |-> "authoritative", expected_content |-> "", original_index |-> 0])

AtOneItem ==
    JDict([url |-> "https://elsewhere", title |-> "Elsewhere", confidence |-> 6,
           reason |-> "relevant", expected_content |-> "overview", original_index |-> 1])

ByTitleItem ==
    JDict([url |-> "https://elsewhere", title |-> MarkerTitle, confidence |-> 11,
           expected_content |-> "product page"])

ByUrlItem ==
    JDict([url |-> "https://cloudaiq", title |-> "Elsewhere", confidence |-> 8,
           reason |-> "relevant", snippet |-> "judge snippet",
           expected_content |-> "pricing details", original_index |-> 9])

JudgeItems == {AtZeroItem, AtOneItem, ByTitleItem, ByUrlItem}

JudgeLists == SeqsUpTo(JudgeItems, MaxVerdict)

JudgeTexts ==
    {Text("none", JList(l)) : l \in JudgeLists}
        \cup {Text("fenced", JList(<<ByUrlItem>>)), Text("prose", JList(<<ByUrlItem>>)),
              Text("none", JList(<<ScalarItem, AtZeroItem, NoUrlItem>>)),
              Text("none", JList(<<NoUrlItem>>)), Text("none", JList(<<BareItem>>)),
              Text("none", JList(<<BareItem, ByUrlItem>>)), Text("none", Garbage),
              Text("none", AtZeroItem), Text("fenced", ScalarItem)}

TransportErrors == {<<"API request failed: ", "Read timed out">>}

\* The Proposer's answers: a record with any of title, snippet and link; a list;
\* a scalar; text that is no JSON.
ProposedKeys == {{}, {"title"}, {"link"}, {"title", "snippet", "link"}}

ProposedEntries ==
    {[key \in keys \cup {"reason_for_change"} |->
         CASE key = "title" -> "CloudAIQ"
           [] key = "snippet" -> "new snippet"
           [] key = "link" -> "https://cloudaiq"
           [] OTHER -> "more relevant"] : keys \in ProposedKeys}

ProposerTexts ==
    {Text("none", JDict(e)) : e \in ProposedEntries}
        \cup {Text("fenced", JDict(e)) : e \in {p \in ProposedEntries : Has(p, "snippet")}}
        \cup {Text("none", JList(<<>>)), Text("none", Garbage)}

-----------------------------------------------------------------------------
(* main: the convergence test and the handoff *)

SitesOf(output) == Get(output, "selected_sites", <<>>)

SeqToSet(q) == {q[i] : i \in 1..Len(q)}

\* the convergence test without the comparison of the urls
SelectedNoUrl(sr, idx, sites) ==
    \E i \in 1..Len(sites) :
        \/ Get(sites[i], "original_index", -1) = idx
        \/ Get(sites[i], "title", "") = Get(At(sr, idx), "title", "")

\* lines 187-202: selected_indices, selected_titles, selected_urls and the test
Selected(sr, idx, sites) ==
    LET selected_indices == [i \in 1..Len(sites) |-> Get(sites[i], "original_index", -1)]
        selected_titles == [i \in 1..Len(sites) |-> Get(sites[i], "title", "")]
        selected_urls == [i \in 1..Len(sites) |-> Get(sites[i], "url", "")]
        mcp_title == Get(At(sr, idx), "title", "")
        mcp_url == Get(At(sr, idx), "link", "")
    IN  IF idx \in SeqToSet(selected_indices) THEN TRUE
        ELSE IF \E t \in SeqToSet(selected_titles) : mcp_title = t THEN TRUE
        ELSE \E u \in SeqToSet(selected_urls) : mcp_url = u

\* lines 206-210: the entries of the verdict the handoff is made for
IsMatch(s, sr, idx) ==
    \/ Get(s, "original_index", -1) = idx
    \/ Get(s, "title", "") = Get(At(sr, idx), "title", "")
    \/ Get(s, "url", "") = Get(At(sr, idx), "link", "")

\* the text written when expected_content is looked at before snippet
SnippetTextExpectedFirst(s, sr, idx) ==
    LET snippet_text == Or(Or(Get(s, "expected_content", PyNone), Get(s, "snippet", PyNone)), "")
    IN  IF ~Truthy(snippet_text) THEN Get(At(sr, idx), "snippet", "") ELSE snippet_text

\* lines 213-218: the text written to target_snippet.txt for entry s
SnippetText(s, sr, idx) ==
    LET snippet_text == Or(Or(Get(s, "snippet", PyNone), Get(s, "expected_content", PyNone)), "")
    IN  IF ~Truthy(snippet_text) THEN Get(At(sr, idx), "snippet", "") ELSE snippet_text

\* the first matching position of sites, and none after it
NextMatchFirstOnly(sites, sr, idx, from) ==
    IF from = 1 /\ \E j \in 1..Len(sites) : IsMatch(sites[j], sr, idx)
    THEN CHOOSE j \in 1..Len(sites) :
             IsMatch(sites[j], sr, idx) /\ \A i \in 1..(j - 1) : ~IsMatch(sites[i], sr, idx)
    ELSE 0

\* the first matching position of sites at or after from, 0 when there is none
NextMatch(sites, sr, idx, from) ==
    IF \E j \in from..Len(sites) : IsMatch(sites[j], sr, idx)
    THEN CHOOSE j \in from..Len(sites) :
             IsMatch(sites[j], sr, idx) /\ \A i \in from..(j - 1) : ~IsMatch(sites[i], sr, idx)
    ELSE 0

\* lines 235-237: the three assignments, each of which evaluates the default
\* search_results[mcp_entry_index][key] before the call of new_entry.get
RECURSIVE Assign(_, _, _, _)
Assign(sr, idx, new_entry, keys) ==
    IF keys = <<>> THEN [results |-> sr, raised |-> PyNone]
    ELSE IF ~IsDict(new_entry) THEN [results |-> sr, raised |-> "AttributeError"]
    ELSE IF ~Has(At(sr, idx), Head(keys)) THEN [results |-> sr, raised |-> "KeyError"]
    ELSE LET key == Head(keys)
             old == At(sr, idx)
             new == [f \in DOMAIN old |->
                        IF f = key THEN Get(new_entry.v, key, old[key]) ELSE old[f]]
         IN  Assign([sr EXCEPT ![idx + 1] = new], idx, new_entry, Tail(keys))

\* the three assignments made to the first candidate of the list
ApplyNewEntryAtFirst(sr, idx, new_entry) ==
    Assign(sr, 0, new_entry, <<"title", "snippet", "link">>)

ApplyNewEntry(sr, idx, new_entry) == Assign(sr, idx, new_entry, <<"title", "snippet", "link">>)

-----------------------------------------------------------------------------
(* enhanced_search_server.py: the registry of custom entries and the
   enhancement of search results.  A query and a keyword are sequences of
   characters, so that "keyword in query_lower" is containment of one sequence
   in the other and str.lower acts on each character.  A snippet is a sequence
   of pieces of text, the placeholder's holding the query. *)

MaxResults == 1
MaxAdded == 1

\* str.lower on one character
LowerChar(c) ==
    CASE c = "G" -> "g"
      [] c = "P" -> "p"
      [] c = "T" -> "t"
      [] c = "N" -> "n"
      [] OTHER -> c

\* str.lower
Lower(str) == [i \in 1..Len(str) |-> LowerChar(str[i])]

\* sub in str
IsSubstring(sub, str) ==
    \E i \in 0..(Len(str) - Len(sub)) : SubSeq(str, i + 1, i + Len(sub)) = sub

Kw_openai == <<"o", "p", "e", "n", "a", "i">>
Kw_gpt == <<"g", "p", "t">>
Kw_python == <<"p", "y", "t", "h", "o", "n">>

CustomEntry(title, link, snippet) ==
    [title |-> title, link |-> link, snippet |-> <<snippet>>]

\* CUSTOM_ENTRIES as the module defines it: the keywords in the order of the
\* dict, each with its list of entries
InitialEntries ==
    << [keyword |-> Kw_openai,
        entries |-> << CustomEntry("OpenAI Official Documentation",
                                   "https://platform.openai.com/docs",
                                   "Official OpenAI API documentation and guides for developers."),
                       CustomEntry("OpenAI Community",
                                   "https://community.openai.com/",
                                   "Join the OpenAI community for discussions, tips, and support.") >>],
       [keyword |-> Kw_gpt,
        entries |-> << CustomEntry("GPT Models Overview",
                                   "https://platform.openai.com/docs/models",
                                   "Comprehensive guide to all GPT models and their capabilities.") >>],
       [keyword |-> Kw_python,
        entries |-> << CustomEntry("Python Official Documentation",
                                   "https://docs.python.org/",
                                   "Official Python documentation and tutorials."),
                       CustomEntry("Python Tutorial",
                                   "https://docs.python.org/3/tutorial/",
                                   "Learn Python programming from the official tutorial.") >>] >>

\* the general custom entry of a query no keyword matched
GeneralEntry(q) ==
    [title |-> "Enhanced Search Result",
     link |-> "https://example.com/enhanced-search",
     snippet |-> <<"This is an enhanced search result for '", q,
                   "'. Custom entries can be configured based on keywords.">>]

\* the for loop of get_custom_entries_for_query over CUSTOM_ENTRIES.items()
RECURSIVE ExtendMatching(_, _)
ExtendMatching(reg, query_lower) ==
    IF reg = <<>> THEN <<>>
    ELSE (IF IsSubstring(Head(reg).keyword, query_lower)
          THEN Head(reg).entries
          ELSE <<>>) \o ExtendMatching(Tail(reg), query_lower)

GetCustomEntriesForQuery(reg, q) ==
    LET custom_entries == ExtendMatching(reg, Lower(q)) IN
        IF custom_entries = <<>> THEN <<GeneralEntry(q)>> ELSE custom_entries

EnhanceSearchResults(reg, res, q) == GetCustomEntriesForQuery(reg, q) \o res

\* the words of the queries
W_GPT == <<"G", "P", "T">>
W_chatgpt == <<"c", "h", "a", "t", "g", "p", "t">>
W_Python == <<"P", "y", "t", "h", "o", "n">>
W_news == <<"n", "e", "w", "s">>
W_News == <<"N", "e", "w", "s">>
Space == <<" ">>

\* the queries of the search requests
Queries ==
    { <<>>, W_GPT, W_chatgpt, W_news, W_News,
      W_chatgpt \o Space \o Kw_openai,
      W_Python \o Space \o W_news,
      Kw_python \o Space \o Kw_openai \o Space \o W_GPT }

\* what search_web returns: the items of the search API, or one error record
FoundEntries ==
    { [title |-> "Organic", link |-> "https://organic", snippet |-> <<"organic snippet">>],
      [title |-> "News", link |-> "https://news", snippet |-> <<"news snippet">>] }

SearchWebResults == SeqsUpTo(FoundEntries, MaxResults) \cup {<<ErrorEntry>>}

\* the JSON bodies of POST /custom-entries
AddedEntry == CustomEntry("Added", "https://added", "added snippet")

EmptyDict == [key \in {} |-> ""]

AddRequests ==
    {[keyword |-> kw, entry |-> e] :
        kw \in {<<>>, W_GPT, Kw_gpt, W_news},
        e \in {AddedEntry, EmptyDict}}
    \cup {[entry |-> AddedEntry], [keyword |-> Kw_gpt]}

\* the entries added at run time
RECURSIVE CountEntries(_)
CountEntries(reg) ==
    IF reg = <<>> THEN 0 ELSE Len(Head(reg).entries) + CountEntries(Tail(reg))

\* lines 262-310: a search request, search_web answering with any of its results
McpSearchWeb ==
    /\ \E q \in Queries, res \in SearchWebResults :
          /\ query' = q
          /\ results' = res
          /\ enhanced_results' = EnhanceSearchResults(CUSTOM_ENTRIES, res, q)
    /\ UNCHANGED <<CUSTOM_ENTRIES, add_reply, add_data, mainVars, loggerVars>>

\* lines 340-363: POST /custom-entries
AddCustomEntry ==
    /\ CountEntries(CUSTOM_ENTRIES) < CountEntries(InitialEntries) + MaxAdded
    /\ \E data \in AddRequests :
          /\ add_data' = data
          /\ IF ~Has(data, "keyword") \/ data.keyword = <<>>
                   \/ ~Has(data, "entry") \/ DOMAIN data.entry = {}
             THEN /\ add_reply' = "Missing keyword or entry"
                  /\ UNCHANGED CUSTOM_ENTRIES
             ELSE /\ add_reply' = "Added custom entry"
                  /\ CUSTOM_ENTRIES' =
                         IF \E i \in 1..Len(CUSTOM_ENTRIES) : CUSTOM_ENTRIES[i].keyword = data.keyword
                         THEN [i \in 1..Len(CUSTOM_ENTRIES) |->
                                  IF CUSTOM_ENTRIES[i].keyword = data.keyword
                                  THEN [CUSTOM_ENTRIES[i] EXCEPT
                                           !.entries = Append(@, data.entry)]
                                  ELSE CUSTOM_ENTRIES[i]]
                         ELSE Append(CUSTOM_ENTRIES,
                                     [keyword |-> data.keyword, entries |-> <<data.entry>>])
    /\ UNCHANGED <<query, results, enhanced_results, mainVars, loggerVars>>

\* the server before its first request
InitServer ==
    /\ CUSTOM_ENTRIES = InitialEntries
    /\ query = <<>>
    /\ results = <<>>
    /\ enhanced_results = <<>>
    /\ add_reply = PyNone
    /\ add_data = NoneValue

-----------------------------------------------------------------------------
(* mcp_logger.py and MCPLoggingMiddleware.dispatch.  A request_id is the
   uuid4 of its exchange: the n-th exchange holds n.  The handlers of
   different requests interleave at the awaits of dispatch: one step logs the
   request, a later step logs the response. *)

MaxExchanges == 2

\* the bodies of a request: none, a JSON object, JSON that is no object, no JSON
RequestBodies == {"empty", "json object", "json other", "not json"}

\* the bodies of a response: none, JSON, no JSON (a plain-text error page)
ResponseBodies == {"empty", "json", "not json"}

\* MCPLogger.log_request: the counter goes up, request_data.get raises when the
\* data is no dict, and else the entry is appended
LogRequest(data, request_id) ==
    /\ request_count' = request_count + 1
    /\ mcp_requests' =
           IF data = "json object"
           THEN Append(mcp_requests, [type |-> "request", request_id |-> request_id,
                                      data |-> data])
           ELSE mcp_requests

\* MCPLogger.log_response
LogResponse(data, request_id) ==
    /\ response_count' = response_count + 1
    /\ mcp_responses' = Append(mcp_responses, [type |-> "response",
                                               request_id |-> request_id, data |-> data])

\* MCPLogger.log_error
LogError(error_type, context, request_id) ==
    /\ error_count' = error_count + 1
    /\ mcp_errors' = Append(mcp_errors, [type |-> "error", error_count |-> error_count + 1,
                                         error_type |-> error_type,
                                         context |-> [context |-> context,
                                                      request_id |-> request_id]])

\* dispatch, lines 59-75: a request arrives, it gets its request_id and its body
\* is logged, then the request goes to its handler
DispatchRequest ==
    /\ Len(exchanges) < MaxExchanges
    /\ \E body \in RequestBodies :
          LET request_id == Len(exchanges) + 1 IN
              /\ exchanges' = Append(exchanges, [body |-> body, phase |-> "handling",
                                                 response |-> "none"])
              /\ CASE body = "empty" ->
                        UNCHANGED <<request_count, mcp_requests, error_count, mcp_errors>>
                   [] body = "not json" ->
                        /\ LogError("JSONDecodeError", "request_parsing", request_id)
                        /\ UNCHANGED <<request_count, mcp_requests>>
                   [] body = "json other" ->
                        /\ LogRequest(body, request_id)
                        /\ LogError("AttributeError", "request_parsing", request_id)
                   [] body = "json object" ->
                        /\ LogRequest(body, request_id)
                        /\ UNCHANGED <<error_count, mcp_errors>>
    /\ UNCHANGED <<response_count, mcp_responses, stats, mainVars, serverVars>>

\* dispatch, lines 76-104: the handler of a request has answered, and the body
\* of the response is logged
DispatchResponse ==
    /\ \E request_id \in 1..Len(exchanges), body \in ResponseBodies :
          /\ exchanges[request_id].phase = "handling"
          /\ exchanges' = [exchanges EXCEPT ![request_id].phase = "answered",
                                            ![request_id].response = body]
          /\ CASE body = "empty" ->
                        UNCHANGED <<response_count, mcp_responses, error_count, mcp_errors>>
               [] body = "not json" ->
                        /\ LogError("JSONDecodeError", "response_parsing", request_id)
                        /\ UNCHANGED <<response_count, mcp_responses>>
               [] body = "json" ->
                        /\ LogResponse(body, request_id)
                        /\ UNCHANGED <<error_count, mcp_errors>>
    /\ UNCHANGED <<request_count, mcp_requests, stats, mainVars, serverVars>>

\* MCPLogger.get_statistics
GetStatistics ==
    /\ stats' = [requests_logged |-> request_count,
                 responses_logged |-> response_count,
                 errors_logged |-> error_count]
    /\ UNCHANGED <<request_count, response_count, error_count, mcp_requests,
                   mcp_responses, mcp_errors, exchanges, mainVars, serverVars>>

\* MCPLogger.__init__, and no request taken yet
InitLogger ==
    /\ request_count = 0
    /\ response_count = 0
    /\ error_count = 0
    /\ mcp_requests = <<>>
    /\ mcp_responses = <<>>
    /\ mcp_errors = <<>>
    /\ exchanges = <<>>
    /\ stats = [requests_logged |-> 0, responses_logged |-> 0, errors_logged |-> 0]

-----------------------------------------------------------------------------
(* main *)

NoOutput == [selected_sites |-> <<>>, raw_llm_response |-> NoneValue,
             success |-> FALSE, error |-> NoError]

NoResult == [new_entry |-> NoneValue, raw_llm_response |-> NoneValue,
             success |-> FALSE, error |-> NoError]

\* no oracle call made yet in this round
NoCall == [kind |-> "none"]

\* target_snippet.txt before the run: what an earlier run wrote
SlotBefore == "artifact of an earlier run"

\* no prompt made yet, the company info file as the repository holds it
InitPrompts ==
    /\ company_info_file = CompanyInfo
    /\ judge_prompt = NoneValue
    /\ proposer_prompt = NoneValue
    /\ company_infos = {}

Init ==
    /\ pc = "start"
    /\ status = "Init"
    /\ round_num = 0
    /\ search_results = <<>>
    /\ mcp_entry_index = 0
    /\ selector_output = NoOutput
    /\ result = NoResult
    /\ judge_calls = 0
    /\ proposer_calls = 0
    /\ abort_reason = <<>>
    /\ exception = PyNone
    /\ slot = SlotBefore
    /\ k = 0
    /\ consumer = "none"
    /\ handoff_log = <<>>
    /\ judge_resp = NoCall
    /\ proposer_resp = NoCall
    /\ rejected_rounds = 0
    /\ proposals_ok = 0
    /\ max_sites_arg = max_sites
    /\ InitPrompts
    /\ InitServer
    /\ InitLogger

\* lines 175-183: the candidate list, the target and the first round
Start ==
    /\ pc = "start"
    /\ UNCHANGED <<max_sites_arg, serverVars, loggerVars>>
    /\ UNCHANGED promptVars
    /\ \E sr \in CandidateLists :
          /\ search_results' = sr
          /\ mcp_entry_index' = FindTarget(sr)
    /\ round_num' = 1
    /\ status' = "Iterating"
    /\ pc' = "select"
    /\ UNCHANGED <<selector_output, result, judge_calls, proposer_calls, abort_reason,
                   exception, slot, k, consumer, handoff_log, judge_resp, proposer_resp,
                   rejected_rounds, proposals_ok>>

\* line 186, whatever the Judge does
Judged(resp) ==
    /\ pc = "select"
    /\ UNCHANGED <<max_sites_arg, serverVars, loggerVars>>
    /\ judge_prompt' = AnalysisPrompt(search_results, max_sites_arg)
    /\ UNCHANGED <<company_info_file, proposer_prompt, company_infos>>
    /\ selector_output' = SelectSites(search_results, max_sites_arg, resp)
    /\ judge_calls' = judge_calls + 1
    /\ judge_resp' = resp
    /\ pc' = "test"
    /\ UNCHANGED <<status, round_num, search_results, mcp_entry_index, result,
                   proposer_calls, abort_reason, exception, slot, k, consumer, handoff_log,
                   proposer_resp, rejected_rounds, proposals_ok>>

\* what chat_completion can do: raise OpenAIError(msg), or return one of texts
OracleRaises == {[kind |-> "error", msg |-> msg] : msg \in TransportErrors}

OracleReturns(texts) == {[kind |-> "text", text |-> text] : text \in texts}

JudgeRaises == \E resp \in OracleRaises : Judged(resp)

JudgeAnswers == \E resp \in OracleReturns(JudgeTexts) : Judged(resp)

\* an exception leaves main
Raise(e) ==
    /\ exception' = e
    /\ status' = "Raised"
    /\ pc' = "done"

\* the convergence test that ends the run when the last round finds no match
ConvergenceTestLastRoundEnds ==
    /\ pc = "test"
    /\ UNCHANGED <<max_sites_arg, serverVars, loggerVars>>
    /\ UNCHANGED promptVars
    /\ IF ~InRange(search_results, mcp_entry_index)
       THEN Raise("IndexError") /\ UNCHANGED <<k, rejected_rounds>>
       ELSE IF Selected(search_results, mcp_entry_index, SitesOf(selector_output))
       THEN /\ status' = "Converged"
            /\ pc' = "handoff"
            /\ k' = 1
            /\ UNCHANGED <<exception, rejected_rounds>>
       ELSE IF round_num = max_rounds
       THEN /\ status' = "Exhausted"
            /\ pc' = "done"
            /\ rejected_rounds' = rejected_rounds + 1
            /\ UNCHANGED <<k, exception>>
       ELSE /\ pc' = "prompt"
            /\ rejected_rounds' = rejected_rounds + 1
            /\ UNCHANGED <<status, k, exception>>
    /\ UNCHANGED <<round_num, search_results, mcp_entry_index, selector_output, result,
                   judge_calls, proposer_calls, abort_reason, slot, consumer, handoff_log,
                   judge_resp, proposer_resp, proposals_ok>>

\* lines 187-204 and 227-228: the convergence test
ConvergenceTest ==
    /\ pc = "test"
    /\ UNCHANGED <<max_sites_arg, serverVars, loggerVars>>
    /\ UNCHANGED promptVars
    /\ IF ~InRange(search_results, mcp_entry_index)
       THEN Raise("IndexError") /\ UNCHANGED <<k, rejected_rounds>>
       ELSE IF Selected(search_results, mcp_entry_index, SitesOf(selector_output))
       THEN /\ status' = "Converged"
            /\ pc' = "handoff"
            /\ k' = 1
            /\ UNCHANGED <<exception, rejected_rounds>>
       ELSE /\ pc' = "prompt"
            /\ rejected_rounds' = rejected_rounds + 1
            /\ UNCHANGED <<status, k, exception>>
    /\ UNCHANGED <<round_num, search_results, mcp_entry_index, selector_output, result,
                   judge_calls, proposer_calls, abort_reason, slot, consumer, handoff_log,
                   judge_resp, proposer_resp, proposals_ok>>

\* the handoff with the subprocess started before the file is written
WriteSnippetAfterStart ==
    /\ pc = "handoff"
    /\ UNCHANGED <<max_sites_arg, serverVars, loggerVars>>
    /\ UNCHANGED promptVars
    /\ LET j == NextMatch(SitesOf(selector_output), search_results, mcp_entry_index, k) IN
          /\ j # 0
          /\ k' = j
          /\ slot' = SnippetText(SitesOf(selector_output)[j], search_results, mcp_entry_index)
    /\ consumer' = "running"
    /\ handoff_log' = handoff_log \o <<"start", "write">>
    /\ pc' = "wait"
    /\ UNCHANGED <<status, round_num, search_results, mcp_entry_index, selector_output,
                   result, judge_calls, proposer_calls, abort_reason, exception,
                   judge_resp, proposer_resp, rejected_rounds, proposals_ok>>

\* lines 205-222: the next matching entry's text goes to target_snippet.txt
WriteSnippet ==
    /\ pc = "handoff"
    /\ UNCHANGED <<max_sites_arg, serverVars, loggerVars>>
    /\ UNCHANGED promptVars
    /\ LET j == NextMatch(SitesOf(selector_output), search_results, mcp_entry_index, k) IN
          /\ j # 0
          /\ k' = j
          /\ slot' = SnippetText(SitesOf(selector_output)[j], search_results, mcp_entry_index)
    /\ handoff_log' = Append(handoff_log, "write")
    /\ pc' = "spawn"
    /\ UNCHANGED <<status, round_num, search_results, mcp_entry_index, selector_output,
                   result, judge_calls, proposer_calls, abort_reason, exception, consumer,
                   judge_resp, proposer_resp, rejected_rounds, proposals_ok>>

\* the subprocess started and left to itself, the for loop going on at once
InvokeWebsiteOptimizerDetached ==
    /\ pc = "spawn"
    /\ UNCHANGED <<max_sites_arg, serverVars, loggerVars>>
    /\ UNCHANGED promptVars
    /\ consumer' = "running"
    /\ handoff_log' = Append(handoff_log, "start")
    /\ k' = k + 1
    /\ pc' = "handoff"
    /\ UNCHANGED <<status, round_num, search_results, mcp_entry_index, selector_output,
                   result, judge_calls, proposer_calls, abort_reason, exception, slot,
                   judge_resp, proposer_resp, rejected_rounds, proposals_ok>>

\* lines 223-225: subprocess.run starts website_optimizer_agent.py
InvokeWebsiteOptimizer ==
    /\ pc = "spawn"
    /\ UNCHANGED <<max_sites_arg, serverVars, loggerVars>>
    /\ UNCHANGED promptVars
    /\ consumer' = "running"
    /\ handoff_log' = Append(handoff_log, "start")
    /\ pc' = "wait"
    /\ UNCHANGED <<status, round_num, search_results, mcp_entry_index, selector_output,
                   result, judge_calls, proposer_calls, abort_reason, exception, slot, k,
                   judge_resp, proposer_resp, rejected_rounds, proposals_ok>>

\* line 225: subprocess.run returns when the subprocess has ended, with exit
\* status 0 or not; its return value is dropped
ConsumerExits ==
    /\ pc = "wait"
    /\ UNCHANGED <<max_sites_arg, serverVars, loggerVars>>
    /\ UNCHANGED promptVars
    /\ consumer' \in {"exited", "failed"}
    /\ k' = k + 1
    /\ pc' = "handoff"
    /\ UNCHANGED <<status, round_num, search_results, mcp_entry_index, selector_output,
                   result, judge_calls, proposer_calls, abort_reason, exception, slot,
                   handoff_log, judge_resp, proposer_resp, rejected_rounds, proposals_ok>>

\* line 226: the break after the last entry of the verdict
Break ==
    /\ pc = "handoff"
    /\ UNCHANGED <<max_sites_arg, serverVars, loggerVars>>
    /\ UNCHANGED promptVars
    /\ NextMatch(SitesOf(selector_output), search_results, mcp_entry_index, k) = 0
    /\ pc' = "done"
    /\ UNCHANGED <<status, round_num, search_results, mcp_entry_index, selector_output,
                   result, judge_calls, proposer_calls, abort_reason, exception, slot, k,
                   consumer, handoff_log, judge_resp, proposer_resp, rejected_rounds,
                   proposals_ok>>

\* line 229 and optimize_snippet, lines 46-61: the company info file is read
\* and the prompt is made, before chat_completion is called
CreateOptimizationPrompt ==
    /\ pc = "prompt"
    /\ UNCHANGED <<max_sites_arg, serverVars, loggerVars>>
    /\ proposer_prompt' = OptimizationPrompt(search_results, selector_output,
                                             mcp_entry_index, company_info_file)
    /\ pc' = "optimize"
    /\ UNCHANGED <<company_info_file, judge_prompt, company_infos>>
    /\ UNCHANGED <<status, round_num, search_results, mcp_entry_index, selector_output,
                   result, judge_calls, proposer_calls, abort_reason, exception, slot, k,
                   consumer, handoff_log, judge_resp, proposer_resp, rejected_rounds,
                   proposals_ok>>

\* lines 229-242, whatever the Proposer does.  selector_output and result are
\* rebound in the next round before they are read again: their values are
\* dropped when the round ends.
Proposed(resp) ==
    /\ pc = "optimize"
    /\ UNCHANGED <<max_sites_arg, serverVars, loggerVars>>
    /\ company_infos' = company_infos \cup {proposer_prompt.company_info}
    /\ proposer_prompt' = NoneValue
    /\ UNCHANGED company_info_file
    /\ proposer_calls' = proposer_calls + 1
    /\ LET r == OptimizeSnippet(search_results, mcp_entry_index, resp) IN
          IF r.success
          THEN LET applied == ApplyNewEntry(search_results, mcp_entry_index, r.new_entry) IN
                  /\ search_results' = applied.results
                  /\ abort_reason' = abort_reason
                  /\ proposals_ok' = proposals_ok + 1
                  /\ IF applied.raised # PyNone
                     THEN /\ Raise(applied.raised)
                          /\ result' = r
                          /\ proposer_resp' = resp
                          /\ UNCHANGED <<round_num, selector_output, judge_resp>>
                     ELSE IF round_num < max_rounds
                     THEN /\ round_num' = round_num + 1
                          /\ pc' = "select"
                          /\ result' = NoResult
                          /\ selector_output' = NoOutput
                          /\ proposer_resp' = NoCall
                          /\ judge_resp' = NoCall
                          /\ UNCHANGED <<status, exception>>
                     ELSE /\ status' = "Exhausted"
                          /\ pc' = "done"
                          /\ result' = r
                          /\ proposer_resp' = resp
                          /\ UNCHANGED <<round_num, exception, selector_output, judge_resp>>
          ELSE /\ abort_reason' = <<"Optimization failed: ">> \o r.error
               /\ status' = "Aborted"
               /\ pc' = "done"
               /\ result' = r
               /\ proposer_resp' = resp
               /\ UNCHANGED <<round_num, search_results, exception, selector_output,
                              judge_resp, proposals_ok>>
    /\ judge_prompt' = IF pc' = "select" THEN NoneValue ELSE judge_prompt
    /\ UNCHANGED <<mcp_entry_index, judge_calls, slot, k, consumer, handoff_log,
                   rejected_rounds>>

ProposerRaises == \E resp \in OracleRaises : Proposed(resp)

ProposerAnswers == \E resp \in OracleReturns(ProposerTexts) : Proposed(resp)

Next ==
    \/ Start
    \/ JudgeRaises
    \/ JudgeAnswers
    \/ ConvergenceTest
    \/ WriteSnippet
    \/ InvokeWebsiteOptimizer
    \/ ConsumerExits
    \/ Break
    \/ CreateOptimizationPrompt
    \/ ProposerRaises
    \/ ProposerAnswers

Spec == Init /\ [][Next]_vars

-----------------------------------------------------------------------------
(* Properties *)

Outcomes == {"Converged", "Exhausted", "Aborted"}

\* C1: a run in which the convergence test of every round found no match and
\* every call of the Optimization Stage returned success ends Exhausted after
\* exactly max_rounds rounds, that is max_rounds Selection calls.
C1_RoundBound ==
    (pc = "done" /\ rejected_rounds = judge_calls /\ proposals_ok = proposer_calls)
        => (status = "Exhausted" /\ judge_calls = max_rounds /\ round_num = max_rounds)

\* C2: the Loop makes at most max_rounds rounds, it stops only in one of the
\* outcomes Converged, Exhausted and Aborted, and once it is in one of them no
\* oracle call is possible any more.
C2_EndsInOutcome ==
    /\ judge_calls <= max_rounds
    /\ proposer_calls <= max_rounds
    /\ pc = "done" => status \in Outcomes
    /\ status \in Outcomes =>
           ~ENABLED (JudgeRaises \/ JudgeAnswers \/ ProposerRaises \/ ProposerAnswers)

\* the target candidate
Target == At(search_results, mcp_entry_index)

Verdict == SitesOf(selector_output)

\* entry s of a verdict matches the target by position, by title or by url
MatchesByPosition(s) == s.original_index = mcp_entry_index
MatchesByTitle(s) == s.title = Get(Target, "title", "")
MatchesByUrl(s) == s.url = Get(Target, "link", "")

MatchExists ==
    /\ InRange(search_results, mcp_entry_index)
    /\ \E i \in 1..Len(Verdict) :
          MatchesByPosition(Verdict[i]) \/ MatchesByTitle(Verdict[i]) \/ MatchesByUrl(Verdict[i])

\* C3: the convergence test of a round moves the Loop to Converged exactly when
\* an entry of the round's verdict matches the target by position, by title or
\* by url.
C3_TripleMatch ==
    [][pc = "test" => ((status' = "Converged") <=> MatchExists)]_vars

\* C3: the Loop has converged on a verdict whose only match is by url
C3_Witness ==
    /\ status = "Converged"
    /\ \E i \in 1..Len(Verdict) : MatchesByUrl(Verdict[i])
    /\ \A i \in 1..Len(Verdict) :
          ~MatchesByPosition(Verdict[i]) /\ ~MatchesByTitle(Verdict[i])

\* the Proposer's call raised, or its text is no JSON
ProposerFailed(resp) ==
    \/ resp.kind = "error"
    \/ resp.kind = "text" /\ JsonLoads(resp.text).t = "garbage"

FailureText(resp) ==
    IF resp.kind = "error" THEN resp.msg ELSE <<JsonLoads(resp.text).message>>

\* C4: a failure of the Optimization Stage in round r ends the Loop in Aborted
\* in that round, with the error text in the reason, after r Judge calls and r
\* Proposer calls, and the candidate list as it was before the call.
C4_AbortOnProposerFailure ==
    [][(pc = "optimize" /\ proposer_calls' = proposer_calls + 1
            /\ ProposerFailed(proposer_resp'))
        => /\ status' = "Aborted"
           /\ pc' = "done"
           /\ Contains(abort_reason', FailureText(proposer_resp'))
           /\ round_num' = round_num
           /\ judge_calls' = round_num
           /\ proposer_calls' = round_num
           /\ search_results' = search_results]_vars

\* C4: the Proposer failed in a later round, after a rewrite of the target
C4_Witness ==
    /\ status = "Aborted"
    /\ round_num >= 2
    /\ ProposerFailed(proposer_resp)
    /\ Get(Target, "title", "") = "CloudAIQ"

\* the Judge's call raised, or its text is not a JSON list
JudgeFailed(resp) ==
    \/ resp.kind = "error"
    \/ resp.kind = "text" /\ JsonLoads(resp.text).t # "list"

\* sites is the fallback verdict of candidate list sr: one entry for each of the
\* first max_sites candidates that is no error placeholder, in their order
IsFallbackOf(sites, sr) ==
    LET kept == {i \in 0..(Min(Len(sr), max_sites) - 1) : ~Has(At(sr, i), "error")} IN
        /\ Len(sites) = Cardinality(kept)
        /\ \A j \in 1..Len(sites) :
              /\ sites[j].original_index \in kept
              /\ sites[j].reason = FallbackReason
              /\ sites[j].url = Get(At(sr, sites[j].original_index), "link", "")
              /\ sites[j].title = Get(At(sr, sites[j].original_index), "title", "Unknown")
        /\ \A i, j \in 1..Len(sites) :
              i < j => sites[i].original_index < sites[j].original_index

\* C5: a failed Judge call leaves the Loop iterating: the Selection Stage
\* returns the fallback verdict and the Loop goes on to the convergence test
\* of the same round with it.
C5_JudgeFailureFallsBack ==
    [][(pc = "select" /\ judge_calls' = judge_calls + 1 /\ JudgeFailed(judge_resp'))
        => /\ status' = "Iterating"
           /\ pc' = "test"
           /\ round_num' = round_num
           /\ ~selector_output'.success
           /\ IsFallbackOf(SitesOf(selector_output'), search_results)]_vars

\* C5: the Judge failed in a later round and the Loop is at the convergence test
C5_Witness ==
    /\ pc = "test"
    /\ round_num >= 2
    /\ judge_resp.kind = "error"
    /\ Len(Verdict) >= 1

\* C6: no exception leaves the Loop: every run ends Converged, Exhausted or
\* Aborted.
C6_NeverRaises ==
    /\ exception = PyNone
    /\ status # "Raised"

\* C7: a step of the Loop changes nothing of the candidate list but the title,
\* snippet and link of the target, and never the target position once it is
\* resolved.
C7_OnlyTargetRewritten ==
    [][pc # "start"
        => /\ mcp_entry_index' = mcp_entry_index
           /\ Len(search_results') = Len(search_results)
           /\ \A i \in 1..Len(search_results) :
                 IF i = mcp_entry_index + 1
                 THEN /\ DOMAIN search_results'[i] = DOMAIN search_results[i]
                      /\ \A f \in DOMAIN search_results[i] \ {"title", "snippet", "link"} :
                            search_results'[i][f] = search_results[i][f]
                 ELSE search_results'[i] = search_results[i]]_vars

\* C7: the target, not the first of the list, has been rewritten in two rounds
C7_Witness ==
    /\ round_num >= 3
    /\ mcp_entry_index >= 1
    /\ InRange(search_results, mcp_entry_index)
    /\ Target.title = "CloudAIQ"
    /\ Target.link = "https://cloudaiq"

-----------------------------------------------------------------------------
(* The handoff of main, lines 205-226, on any verdict: the state after line 204
   with a verdict whose entries hold any of snippet and expected_content. *)

ArtifactFields ==
    {[snippet |-> a, expected_content |-> b] :
        a \in {PyNone, "", "judge snippet"}, b \in {PyNone, "", "pricing details"}}

\* a verdict entry that refers to position idx and holds the fields of f that are
\* not None
EntryWith(idx, f) ==
    [key \in {"url", "original_index"} \cup {g \in DOMAIN f : f[g] # PyNone} |->
        CASE key = "url" -> "https://elsewhere"
          [] key = "original_index" -> idx
          [] OTHER -> f[key]]

ExtractVerdicts(idx) ==
    SeqsUpTo({EntryWith(idx, f) : f \in ArtifactFields} \cup {BareItem.v}, MaxVerdict)

InitExtract ==
    /\ pc = "handoff"
    /\ status = "Converged"
    /\ round_num = 1
    /\ search_results \in CandidateLists
    /\ mcp_entry_index = FindTarget(search_results)
    /\ InRange(search_results, mcp_entry_index)
    /\ \E sites \in ExtractVerdicts(mcp_entry_index) :
          /\ Selected(search_results, mcp_entry_index, sites)
          /\ selector_output = [selected_sites |-> sites, raw_llm_response |-> NoneValue,
                                success |-> TRUE, error |-> NoError]
    /\ result = NoResult
    /\ judge_calls = 1
    /\ proposer_calls = 0
    /\ abort_reason = <<>>
    /\ exception = PyNone
    /\ slot = SlotBefore
    /\ k = 1
    /\ consumer = "none"
    /\ handoff_log = <<>>
    /\ judge_resp = NoCall
    /\ proposer_resp = NoCall
    /\ rejected_rounds = 0
    /\ proposals_ok = 0
    /\ max_sites_arg = max_sites
    /\ company_info_file = CompanyInfo
    /\ judge_prompt = AnalysisPrompt(search_results, max_sites_arg)
    /\ proposer_prompt = NoneValue
    /\ company_infos = {}
    /\ InitServer
    /\ InitLogger

NextExtract ==
    \/ WriteSnippet
    \/ InvokeWebsiteOptimizer
    \/ ConsumerExits
    \/ Break

SpecExtract == InitExtract /\ [][NextExtract]_vars

Present(s, key) == Has(s, key) /\ s[key] # PyNone /\ s[key] # ""

\* C8: the text written for a matching entry is its snippet field when it has a
\* non-empty one, else its expected-content field when that is non-empty, else
\* the target's own snippet.
C8_ArtifactPriority ==
    pc = "spawn" =>
        LET s == Verdict[k] IN
            slot = IF Present(s, "snippet") THEN s.snippet
                   ELSE IF Present(s, "expected_content") THEN s.expected_content
                   ELSE Get(Target, "snippet", "")

\* C8: an entry with a snippet and an expected-content was written
C8_Witness ==
    /\ pc = "spawn"
    /\ Present(Verdict[k], "snippet")
    /\ Present(Verdict[k], "expected_content")
    /\ slot = "judge snippet"

\* the entries of the Judge's list that the Selection Stage keeps
IsKept(item) == IsDict(item) /\ Has(item.v, "url")

JudgeEntries == SelectSeq(JsonLoads(judge_resp.text).items, IsKept)

\* C9: when the entry of the Judge's answer the handoff is made for carries a
\* non-empty snippet field, the text written to the slot is that snippet.
C9_JudgeSnippetPersisted ==
    (pc = "spawn" /\ ~JudgeFailed(judge_resp)
        /\ Present(JudgeEntries[k].v, "snippet"))
        => slot = JudgeEntries[k].v.snippet

\* C10: the slot is written and the consumer started only in Converged, every
\* start of the consumer follows a write of the slot, and a run that is
\* Exhausted or Aborted has left the slot as it was and started no consumer.
C10_HandoffOnlyOnConverged ==
    /\ (handoff_log # <<>> \/ consumer # "none" \/ slot # SlotBefore)
           => status = "Converged"
    /\ \A i \in 1..Len(handoff_log) :
           handoff_log[i] = "start" => (i > 1 /\ handoff_log[i - 1] = "write")
    /\ consumer # "none" => \E i \in 1..Len(handoff_log) : handoff_log[i] = "start"
    /\ status \in {"Exhausted", "Aborted"}
           => (slot = SlotBefore /\ consumer = "none" /\ handoff_log = <<>>)

\* C10: a converged run has written the slot and then started the consumer
C10_Witness ==
    /\ pc = "done"
    /\ status = "Converged"
    /\ round_num >= 2
    /\ handoff_log = <<"write", "start">>
    /\ slot # SlotBefore
    /\ consumer = "exited"

-----------------------------------------------------------------------------
(* select_sites on its own: any candidate list, any max_sites from 1 on and
   any behaviour of the Judge's chat_completion. *)

MaxListLen == 4
MaxSitesArg == 3

InitSelect ==
    /\ pc = "select"
    /\ status = "Iterating"
    /\ round_num = 1
    /\ search_results \in SeqsUpTo(Candidates, MaxListLen)
    /\ mcp_entry_index = FindTarget(search_results)
    /\ max_sites_arg \in 1..MaxSitesArg
    /\ InitPrompts
    /\ selector_output = NoOutput
    /\ result = NoResult
    /\ judge_calls = 0
    /\ proposer_calls = 0
    /\ abort_reason = <<>>
    /\ exception = PyNone
    /\ slot = SlotBefore
    /\ k = 0
    /\ consumer = "none"
    /\ handoff_log = <<>>
    /\ judge_resp = NoCall
    /\ proposer_resp = NoCall
    /\ rejected_rounds = 0
    /\ proposals_ok = 0
    /\ InitServer
    /\ InitLogger

NextSelect ==
    \/ JudgeRaises
    \/ JudgeAnswers

SpecSelect == InitSelect /\ [][NextSelect]_vars

\* C12: a fallback verdict has at most max_sites entries, none of them made
\* from an error placeholder, and the original_index of each entry is the
\* position in the candidate list of the candidate the entry was made from.
C12_FallbackBounded ==
    (pc = "test" /\ JudgeFailed(judge_resp)) =>
        /\ Len(Verdict) <= max_sites_arg
        /\ \A j \in 1..Len(Verdict) :
              LET i == Verdict[j].original_index IN
                  /\ InRange(search_results, i)
                  /\ ~Has(At(search_results, i), "error")
                  /\ Verdict[j].url = At(search_results, i).link
                  /\ Verdict[j].title = At(search_results, i).title

\* C12: a fallback on a list longer than max_sites that holds an error
\* placeholder and, after it, a candidate the verdict refers to
C12_Witness ==
    /\ pc = "test"
    /\ JudgeFailed(judge_resp)
    /\ Len(search_results) > max_sites_arg
    /\ Has(search_results[1], "error")
    /\ \E j \in 1..Len(Verdict) :
          Verdict[j].original_index = 1 /\ Verdict[j].title = MarkerTitle

\* the positions of the first n candidates of sr that are no error placeholders
FirstNonError(sr, n) ==
    LET nonError == {i \in 0..(Len(sr) - 1) : ~Has(At(sr, i), "error")} IN
        {i \in nonError : Cardinality({j \in nonError : j < i}) < n}

\* C13: when the Judge failed the verdict is made of the first max_sites
\* candidates that are no error placeholders, in the order of the list (the
\* placeholders are skipped and do not count), each with confidence 7 and the
\* fallback rationale.
C13_FirstNonError ==
    (pc = "test" /\ JudgeFailed(judge_resp)) =>
        LET first == FirstNonError(search_results, max_sites_arg) IN
            /\ Len(Verdict) = Cardinality(first)
            /\ \A j \in 1..Len(Verdict) :
                  /\ Verdict[j].original_index \in first
                  /\ Verdict[j].confidence = FallbackConfidence
                  /\ Verdict[j].reason = FallbackReason
            /\ \A i, j \in 1..Len(Verdict) :
                  i < j => Verdict[i].original_index < Verdict[j].original_index

\* sites is the fallback verdict of list sr for n sites: one entry, with
\* confidence 7 and the fallback texts, for each of the first n candidates that
\* is no error placeholder, in their order
IsFallbackVerdict(sites, sr, n) ==
    LET kept == {i \in 0..(Min(Len(sr), n) - 1) : ~Has(At(sr, i), "error")} IN
        /\ Len(sites) = Cardinality(kept)
        /\ \A j \in 1..Len(sites) :
              /\ sites[j].original_index \in kept
              /\ sites[j].confidence = FallbackConfidence
              /\ sites[j].reason = FallbackReason
              /\ sites[j].expected_content = FallbackExpected
              /\ sites[j].url = Get(At(sr, sites[j].original_index), "link", "")
              /\ sites[j].title = Get(At(sr, sites[j].original_index), "title", "Unknown")
        /\ \A i, j \in 1..Len(sites) :
              i < j => sites[i].original_index < sites[j].original_index

\* C14: whatever the Judge did, select_sites returns a record and raises
\* nothing; success is true exactly when the Judge's text parsed to a list, and
\* when it is false the record holds an error message and the fallback verdict.
C14_AlwaysARecord ==
    pc = "test" =>
        /\ exception = PyNone
        /\ status = "Iterating"
        /\ DOMAIN selector_output = {"selected_sites", "raw_llm_response", "success", "error"}
        /\ selector_output.success
               <=> (judge_resp.kind = "text" /\ IsList(JsonLoads(judge_resp.text)))
        /\ ~selector_output.success
               => /\ selector_output.error # NoError
                  /\ Len(selector_output.error) >= 1
                  /\ IsFallbackVerdict(Verdict, search_results, max_sites_arg)

\* C14: the Judge answered a JSON value that is no list, and select_sites
\* returned the fallback verdict of a list longer than max_sites
C14_Witness ==
    /\ pc = "test"
    /\ judge_resp.kind = "text"
    /\ JsonLoads(judge_resp.text).t \in {"dict", "scalar"}
    /\ ~selector_output.success
    /\ Len(search_results) > max_sites_arg
    /\ Len(Verdict) = max_sites_arg

\* C15: whenever the Judge returned text and select_sites reports a failure,
\* the text is unparseable or parses to something that is no list, the record
\* holds the Judge's text in raw_llm_response.
C15_RawTextPreserved ==
    (pc = "test" /\ judge_resp.kind = "text" /\ ~selector_output.success)
        => selector_output.raw_llm_response = judge_resp.text

C17_ConfidenceInRange ==
    \A j \in 1..Len(Verdict) : Verdict[j].confidence \in 1..10

\* C18: a call of optimize_snippet whose Proposer call raised, or whose
\* Proposer text is no JSON, returns a record with success false, the error
\* message and no new_entry, and the candidate list stays as it was; a record
\* with success true holds the entry parsed from the Proposer's text.
C18_NoFallbackRewrite ==
    [][(pc = "optimize" /\ proposer_calls' = proposer_calls + 1 /\ proposer_resp' # NoCall)
        => /\ ProposerFailed(proposer_resp')
                  => /\ ~result'.success
                     /\ result'.error = FailureText(proposer_resp')
                     /\ result'.error # NoError
                     /\ result'.new_entry = NoneValue
                     /\ search_results' = search_results
                     /\ exception' = PyNone
           /\ result'.success
                  => /\ proposer_resp'.kind = "text"
                     /\ JsonLoads(proposer_resp'.text).t # "garbage"
                     /\ result'.new_entry = JsonLoads(proposer_resp'.text)
                     /\ result'.error = NoError]_vars

\* C18: optimize_snippet has returned a failure for a Proposer text that is no
\* JSON, in a round after a rewrite
C18_Witness ==
    /\ status = "Aborted"
    /\ round_num >= 2
    /\ proposer_resp.kind = "text"
    /\ ~result.success
    /\ result.new_entry = NoneValue
    /\ result.error = <<Garbage.message>>

\* C19: a Proposer text that parses to a list or to a scalar ends the Loop
\* Aborted, as a failed Proposer call does, and no exception leaves the Loop.
C19_WrongShapeAborts ==
    (proposer_resp.kind = "text" /\ JsonLoads(proposer_resp.text).t \in {"list", "scalar"})
        => (status = "Aborted" /\ exception = PyNone)

-----------------------------------------------------------------------------
(* The search server on its own *)

NextServer ==
    \/ McpSearchWeb
    \/ AddCustomEntry

SpecServer == Init /\ [][NextServer]_vars

\* keyword kw occurs in query q, letter case ignored
Occurs(kw, q) == IsSubstring(Lower(kw), Lower(q))

\* the entries of the keywords of registry reg that occur in q, in the order of
\* the registry
RECURSIVE EntriesOccurring(_, _)
EntriesOccurring(reg, q) ==
    IF reg = <<>> THEN <<>>
    ELSE (IF Occurs(Head(reg).keyword, q) THEN Head(reg).entries ELSE <<>>)
             \o EntriesOccurring(Tail(reg), q)

\* C20: the answer to a search request is E followed by the organic results
\* in their order, E being the entries of all the keywords of the registry that
\* occur in the query, in the order of the registry, or the one general entry
\* when no keyword occurs.
C20_CustomThenOrganic ==
    [][<<query, results, enhanced_results>>' # <<query, results, enhanced_results>>
        => LET E == EntriesOccurring(CUSTOM_ENTRIES, query') IN
               enhanced_results'
                   = (IF E = <<>> THEN <<GeneralEntry(query')>> ELSE E) \o results']_vars

\* the custom entries of an answer: what stands before the organic results
CustomPrefix(enhanced, res) == SubSeq(enhanced, 1, Len(enhanced) - Len(res))

\* C21: the matching of keywords ignores letter case for every keyword of the
\* registry, those added through add_custom_entry included: the answer to a
\* search request holds the entries of a keyword exactly when the keyword,
\* letter case ignored, is a substring of the query.
C21_CaseInsensitiveMatch ==
    [][<<query, results, enhanced_results>>' # <<query, results, enhanced_results>>
        => LET E == CustomPrefix(enhanced_results', results') IN
               \A i \in 1..Len(CUSTOM_ENTRIES) :
                   (\A j \in 1..Len(CUSTOM_ENTRIES[i].entries) :
                        \E n \in 1..Len(E) : E[n] = CUSTOM_ENTRIES[i].entries[j])
                       <=> Occurs(CUSTOM_ENTRIES[i].keyword, query')]_vars

-----------------------------------------------------------------------------
(* The logger and the logging middleware on their own *)

NextLogger ==
    \/ DispatchRequest
    \/ DispatchResponse
    \/ GetStatistics

SpecLogger == Init /\ [][NextLogger]_vars

\* the entries of a stream that carry request_id
EntriesOf(stream, request_id) ==
    {n \in 1..Len(stream) : stream[n].request_id = request_id}

\* C22: every request the middleware has taken, whatever its body, has one
\* entry in the requests stream under its request_id, which no other exchange
\* has, and once it is answered one entry in the responses stream under the
\* same request_id, however the requests interleave.
C22_EveryExchangeLogged ==
    \A request_id \in 1..Len(exchanges) :
        /\ Cardinality(EntriesOf(mcp_requests, request_id)) = 1
        /\ exchanges[request_id].phase = "answered"
               => Cardinality(EntriesOf(mcp_responses, request_id)) = 1

\* C23: the counters get_statistics returns are the numbers of entries the
\* logger has appended to the requests, responses and errors streams, no
\* counter ever decreases, and a statistics query changes none of them.
C23_CountersMatchStreams ==
    /\ [](/\ request_count = Len(mcp_requests)
          /\ response_count = Len(mcp_responses)
          /\ error_count = Len(mcp_errors))
    /\ [][/\ request_count' >= request_count
          /\ response_count' >= response_count
          /\ error_count' >= error_count
          /\ stats' # stats
                 => /\ stats' = [requests_logged |-> Len(mcp_requests),
                                 responses_logged |-> Len(mcp_responses),
                                 errors_logged |-> Len(mcp_errors)]
                    /\ UNCHANGED <<request_count, response_count, error_count,
                                   mcp_requests, mcp_responses, mcp_errors>>]_vars

\* the body of a POST /custom-entries lacks a keyword or an entry, or holds an
\* empty one
LacksKeywordOrEntry(data) ==
    \/ ~Has(data, "keyword")
    \/ ~Has(data, "entry")
    \/ Len(data.keyword) = 0
    \/ DOMAIN data.entry = {}

\* the position of keyword kw in registry reg, 0 when it is not there
PositionOf(reg, kw) ==
    IF \E i \in 1..Len(reg) : reg[i].keyword = kw
    THEN CHOOSE i \in 1..Len(reg) : reg[i].keyword = kw
    ELSE 0

\* C26: a POST /custom-entries that lacks a keyword or an entry answers with
\* an error and changes nothing of the registry; any other appends the entry
\* to the list of its keyword, a new list at the end of the registry when the
\* keyword is new, and changes no other list; a search request changes nothing
\* of the registry, and its answer holds every entry of every keyword the
\* query contains.
C26_AddAppendsAndIsFound ==
    /\ [][<<add_data, add_reply, CUSTOM_ENTRIES>>' # <<add_data, add_reply, CUSTOM_ENTRIES>>
           => IF LacksKeywordOrEntry(add_data')
              THEN /\ add_reply' = "Missing keyword or entry"
                   /\ CUSTOM_ENTRIES' = CUSTOM_ENTRIES
              ELSE LET at == PositionOf(CUSTOM_ENTRIES, add_data'.keyword)
                       to == IF at = 0 THEN Len(CUSTOM_ENTRIES) + 1 ELSE at IN
                       /\ add_reply' = "Added custom entry"
                       /\ Len(CUSTOM_ENTRIES') = (IF at = 0 THEN Len(CUSTOM_ENTRIES) + 1
                                                            ELSE Len(CUSTOM_ENTRIES))
                       /\ CUSTOM_ENTRIES'[to].keyword = add_data'.keyword
                       /\ CUSTOM_ENTRIES'[to].entries
                              = (IF at = 0 THEN <<>> ELSE CUSTOM_ENTRIES[at].entries)
                                    \o <<add_data'.entry>>
                       /\ \A i \in 1..Len(CUSTOM_ENTRIES) :
                              i # to => CUSTOM_ENTRIES'[i] = CUSTOM_ENTRIES[i]]_vars
    /\ [][<<query, results, enhanced_results>>' # <<query, results, enhanced_results>>
           => /\ CUSTOM_ENTRIES' = CUSTOM_ENTRIES
              /\ LET E == CustomPrefix(enhanced_results', results') IN
                     \A i \in 1..Len(CUSTOM_ENTRIES) :
                         IsSubstring(CUSTOM_ENTRIES[i].keyword, query')
                             => \A j \in 1..Len(CUSTOM_ENTRIES[i].entries) :
                                    \E n \in 1..Len(E) :
                                        E[n] = CUSTOM_ENTRIES[i].entries[j]]_vars

-----------------------------------------------------------------------------
(* The order of the oracle calls and what they are sent *)

\* C25: the Judge and the Proposer are called one at a time and in turn, the
\* Judge first; the Proposer of a round is sent the verdict select_sites made
\* in that round; when a round is followed by another, the target holds the
\* title, snippet and link the Proposer's answer named and its former value for
\* each it did not name, the Judge of the next round is shown the target as it
\* is then, and the convergence test compares the verdict with it.
C25_AlternatingCalls ==
    [][/\ judge_calls' # judge_calls
           => /\ judge_calls' = judge_calls + 1
              /\ proposer_calls' = proposer_calls
              /\ judge_calls = proposer_calls
              /\ judge_calls' = round_num
              /\ InRange(search_results, mcp_entry_index) /\ ~Has(Target, "error")
                    => \E n \in 1..Len(judge_prompt'.formatted_results) :
                           LET shown == judge_prompt'.formatted_results[n] IN
                               /\ shown.number = mcp_entry_index + 1
                               /\ shown.title = Target.title
                               /\ shown.link = Target.link
                               /\ shown.snippet = Target.snippet
       /\ proposer_calls' # proposer_calls
           => /\ proposer_calls' = proposer_calls + 1
              /\ judge_calls' = judge_calls
              /\ judge_calls = proposer_calls + 1
              /\ proposer_calls' = round_num
              /\ judge_resp # NoCall
              /\ selector_output = SelectSites(search_results, max_sites_arg, judge_resp)
              /\ proposer_prompt.formatted_selection
                     = FormatSelectedSites(selector_output.selected_sites)
              /\ proposer_prompt.mcp_entry = Target
       /\ round_num >= 1 /\ round_num' = round_num + 1
           => /\ proposer_calls' = proposer_calls + 1
              /\ \E e \in ProposedEntries :
                     \A f \in {"title", "snippet", "link"} :
                         At(search_results', mcp_entry_index)[f]
                             = (IF Has(e, f) THEN e[f] ELSE Target[f])
       /\ pc = "test" /\ InRange(search_results, mcp_entry_index)
           => (status' = "Converged"
                  <=> \E n \in 1..Len(selector_output.selected_sites) :
                          LET s == selector_output.selected_sites[n] IN
                              \/ Get(s, "original_index", -1) = mcp_entry_index
                              \/ Get(s, "title", "") = Get(Target, "title", "")
                              \/ Get(s, "url", "") = Get(Target, "link", ""))]_vars

\* C25: in round 2 or later the Proposer is about to be called with a verdict
\* of at least one entry, the target holding the title proposed before and the
\* Judge of this round having been shown that title
C25_Witness ==
    /\ pc = "optimize"
    /\ round_num >= 2
    /\ judge_calls = round_num
    /\ proposer_calls = round_num - 1
    /\ Len(proposer_prompt.formatted_selection) >= 1
    /\ Target.title = "CloudAIQ"
    /\ \E n \in 1..Len(judge_prompt.formatted_results) :
           /\ judge_prompt.formatted_results[n].number = mcp_entry_index + 1
           /\ judge_prompt.formatted_results[n].title = "CloudAIQ"

\* the Judge of this round failed, and the target is one of the first
\* max_sites candidates and no error placeholder
FallbackCoversTarget ==
    /\ JudgeFailed(judge_resp)
    /\ InRange(search_results, mcp_entry_index)
    /\ mcp_entry_index < max_sites
    /\ ~Has(Target, "error")

\* C27: when the Judge's call of a round fails and the target is no error
\* placeholder and among the first 3 candidates, the fallback verdict holds an
\* entry whose original_index is the position of the target, the convergence
\* test of that round ends the Loop Converged, and the run ends in that round
\* with 'General information about the topic' in target_snippet.txt and the
\* website optimizer started.
C27_FallbackConverges ==
    /\ [](FallbackCoversTarget
            => /\ \E n \in 1..Len(Verdict) : Verdict[n].original_index = mcp_entry_index
               /\ judge_calls = round_num
               /\ proposer_calls = round_num - 1
               /\ pc \notin {"prompt", "optimize"}
               /\ pc # "test" => status = "Converged"
               /\ pc = "done"
                    => /\ slot = FallbackExpected
                       /\ Len(handoff_log) >= 2
                       /\ handoff_log[1] = "write" /\ handoff_log[2] = "start"
                       /\ consumer \in {"exited", "failed"})
    /\ [][pc = "test" /\ FallbackCoversTarget
            => status' = "Converged" /\ pc' = "handoff" /\ round_num' = round_num]_vars

\* C27: the Judge failed in round 2 or later with the target at position 1,
\* and the run has ended
C27_Witness ==
    /\ pc = "done"
    /\ status = "Converged"
    /\ round_num >= 2
    /\ mcp_entry_index = 1
    /\ FallbackCoversTarget
    /\ slot = FallbackExpected
    /\ consumer = "exited"

\* the positions among the first n of the verdict whose entry matches the target
MatchingUpTo(n) == {i \in 1..n : IsMatch(Verdict[i], search_results, mcp_entry_index)}

\* the greatest of a set of numbers that is not empty
Greatest(S) == CHOOSE x \in S : \A y \in S : y <= x

\* C28: a Converged run writes target_snippet.txt and starts the website
\* optimizer once for each entry of the verdict that matches the target, in
\* the order of the verdict, a write each time followed by a start; at the
\* end the file holds the text of the last matching entry, and the website
\* optimizer has been started once exactly when one entry matches.
C28_HandoffPerMatch ==
    /\ []((pc = "done" /\ status = "Converged")
            => LET matching == MatchingUpTo(Len(Verdict)) IN
                   /\ Cardinality(matching) >= 1
                   /\ Len(handoff_log) = 2 * Cardinality(matching)
                   /\ \A n \in 1..Len(handoff_log) :
                          handoff_log[n] = (IF n % 2 = 1 THEN "write" ELSE "start")
                   /\ slot = SnippetText(Verdict[Greatest(matching)], search_results,
                                         mcp_entry_index))
    /\ [][handoff_log' # handoff_log
            => /\ Len(handoff_log') = Len(handoff_log) + 1
               /\ search_results' = search_results /\ selector_output' = selector_output
               /\ IF Len(handoff_log) % 2 = 0
                  THEN /\ handoff_log' = Append(handoff_log, "write")
                       /\ k' \in MatchingUpTo(Len(Verdict))
                       /\ Cardinality(MatchingUpTo(k')) = Len(handoff_log) \div 2 + 1
                       /\ slot' = SnippetText(Verdict[k'], search_results, mcp_entry_index)
                  ELSE /\ handoff_log' = Append(handoff_log, "start")
                       /\ slot' = slot
                       /\ consumer' = "running"]_vars

\* C28: two entries of the verdict matched the target, and the file holds the
\* text of the second, which is not the text of the first
C28_Witness ==
    /\ pc = "done"
    /\ status = "Converged"
    /\ Len(Verdict) = 2
    /\ MatchingUpTo(2) = {1, 2}
    /\ handoff_log = <<"write", "start", "write", "start">>
    /\ slot = SnippetText(Verdict[2], search_results, mcp_entry_index)
    /\ slot # SnippetText(Verdict[1], search_results, mcp_entry_index)

\* the candidate the Judge of this round was shown under the number of the target
ShownTarget ==
    CHOOSE shown \in SeqToSet(judge_prompt.formatted_results) :
        shown.number = mcp_entry_index + 1

\* C29: a run that ends Exhausted has called the Judge max_rounds times and
\* the Proposer max_rounds times, the last call being the Proposer's in round
\* max_rounds, whose answer is applied to the target; the Judge is not called
\* again, so what it was last shown is the target before that rewrite.
C29_LastRewriteUnjudged ==
    /\ [](status = "Exhausted"
            => /\ pc = "done"
               /\ round_num = max_rounds
               /\ judge_calls = max_rounds
               /\ proposer_calls = max_rounds
               /\ rejected_rounds = max_rounds
               /\ proposals_ok = max_rounds)
    /\ [][status # "Exhausted" /\ status' = "Exhausted"
            => /\ round_num = max_rounds
               /\ proposer_calls' = proposer_calls + 1
               /\ judge_calls' = judge_calls
               /\ judge_prompt' = judge_prompt
               /\ ShownTarget.title = Target.title
               /\ ShownTarget.link = Target.link
               /\ ShownTarget.snippet = Target.snippet
               /\ \E e \in ProposedEntries :
                      \A f \in {"title", "snippet", "link"} :
                          At(search_results', mcp_entry_index)[f]
                              = (IF Has(e, f) THEN e[f] ELSE Target[f])]_vars
    /\ [][status = "Exhausted"
            => judge_calls' = judge_calls /\ judge_prompt' = judge_prompt]_vars

\* C29: the run is Exhausted and the target holds a title that the Proposer
\* of the last round gave it, the Judge having been shown the title it had before
C29_Witness ==
    /\ status = "Exhausted"
    /\ judge_calls = max_rounds
    /\ proposer_calls = max_rounds
    /\ Target.title = "CloudAIQ"
    /\ ShownTarget.title = MarkerTitle

\* the positions of the candidates that are no error placeholders
Shown == {p \in 0..(Len(search_results) - 1) : ~Has(At(search_results, p), "error")}

\* the line of a formatted candidate list made for the candidate at 0-based
\* position p, which is no error placeholder
ShownAs(formatted, p) == formatted[Cardinality({q \in Shown : q <= p})]

\* a formatted candidate list shows each candidate that is no error
\* placeholder, in the order of the list, the one at position p with the
\* number p + first
NumberedFrom(formatted, first) ==
    /\ Len(formatted) = Cardinality(Shown)
    /\ \A p \in Shown :
           LET line == ShownAs(formatted, p) IN
               /\ line.number = p + first
               /\ line.title = Get(At(search_results, p), "title", "No title")
               /\ line.link = Get(At(search_results, p), "link", "No link")
               /\ line.snippet = Get(At(search_results, p), "snippet", "No snippet")

\* C30: the prompt of select_sites shows the candidate at 0-based position p
\* under the number p + 1 and shows no error placeholder, so that the numbers
\* have gaps; the prompt of optimize_snippet shows it under p; an entry of the
\* fallback verdict has the 0-based position as its original_index; the
\* convergence test compares original_index with the 0-based position of the
\* target, so that a verdict entry whose original_index is the number the
\* Judge was shown for the candidate before the target ends the Loop Converged.
C30_NumberingOffByOne ==
    [][/\ judge_calls' # judge_calls
           => /\ NumberedFrom(judge_prompt'.formatted_results, 1)
              /\ JudgeFailed(judge_resp')
                    => \A n \in 1..Len(selector_output'.selected_sites) :
                           LET s == selector_output'.selected_sites[n] IN
                               /\ s.original_index \in Shown
                               /\ s.title = Get(At(search_results, s.original_index),
                                                "title", "Unknown")
       /\ pc = "prompt"
           => NumberedFrom(proposer_prompt'.formatted_results, 0)
       /\ (/\ pc = "test"
           /\ mcp_entry_index >= 1
           /\ InRange(search_results, mcp_entry_index)
           /\ mcp_entry_index - 1 \in Shown
           /\ \E n \in 1..Len(Verdict) :
                  Verdict[n].original_index
                      = ShownAs(judge_prompt.formatted_results, mcp_entry_index - 1).number)
           => status' = "Converged"]_vars

\* C30: the Loop is Converged on a verdict whose one entry has neither the
\* title nor the url of the target at position 1, and has the number the Judge
\* was shown for the candidate at position 0
C30_Witness ==
    /\ pc = "handoff"
    /\ status = "Converged"
    /\ mcp_entry_index = 1
    /\ 0 \in Shown
    /\ Len(Verdict) = 1
    /\ Verdict[1].title # Target.title
    /\ Verdict[1].url # Target.link
    /\ Verdict[1].original_index = ShownAs(judge_prompt.formatted_results, 0).number

-----------------------------------------------------------------------------
(* The Loop with a company info file that is written, removed and created
   while it runs: main after lines 175-183 on the list of one organic result
   and the target. *)

\* company_info.md is given another content, removed or created by another
\* process while main runs; optimize_snippet opens it by its path at lines 50-52
ChangeCompanyInfo ==
    /\ pc # "done"
    /\ company_info_file' \in CompanyInfoFiles \ {company_info_file}
    /\ UNCHANGED <<pc, status, round_num, search_results, mcp_entry_index, selector_output,
                   result, judge_calls, proposer_calls, abort_reason, exception, slot, k,
                   consumer, handoff_log, judge_resp, proposer_resp, rejected_rounds,
                   proposals_ok, max_sites_arg, judge_prompt, proposer_prompt,
                   company_infos, serverVars, loggerVars>>

InitFactBase ==
    /\ pc = "select"
    /\ status = "Iterating"
    /\ round_num = 1
    /\ search_results = <<OrganicEntry, MarkerEntry>>
    /\ mcp_entry_index = FindTarget(search_results)
    /\ selector_output = NoOutput
    /\ result = NoResult
    /\ judge_calls = 0
    /\ proposer_calls = 0
    /\ abort_reason = <<>>
    /\ exception = PyNone
    /\ slot = SlotBefore
    /\ k = 0
    /\ consumer = "none"
    /\ handoff_log = <<>>
    /\ judge_resp = NoCall
    /\ proposer_resp = NoCall
    /\ rejected_rounds = 0
    /\ proposals_ok = 0
    /\ max_sites_arg = max_sites
    /\ InitPrompts
    /\ InitServer
    /\ InitLogger

NextFactBase ==
    \/ JudgeRaises
    \/ JudgeAnswers
    \/ ConvergenceTest
    \/ WriteSnippet
    \/ InvokeWebsiteOptimizer
    \/ ConsumerExits
    \/ Break
    \/ CreateOptimizationPrompt
    \/ ProposerRaises
    \/ ProposerAnswers
    \/ ChangeCompanyInfo

SpecFactBase == InitFactBase /\ [][NextFactBase]_vars

\* C24: all calls of the Proposer in one run are sent the same company info
\* text, whatever happens to the company info file while the Loop runs.
C24_OneFactBase == Cardinality(company_infos) <= 1

====
